---- MODULE Spec2Model ----
(***************************************************************************)
(* Slice interpolation and mask clean-up of the HECKTOR segmentation       *)
(* editor (src/main.py, class HECKTORViewer).                              *)
(*                                                                         *)
(* A label volume is a function  z |-> plane  over 0..Depth-1, a plane a   *)
(* function  <<y, x>> |-> class id  over Pix (0 = background).  A boolean  *)
(* mask is the set of its True pixels.  A float image is a function        *)
(* Pix -> Int in fixed point: Gaussian kernels are integer weights that    *)
(* sum to Scale, so a twice filtered 0/1 image has values in 0..Scale^2.   *)
(* Slice indices are 0-based as in the source.                             *)
(***************************************************************************)
EXTENDS Integers, Sequences, FiniteSets, TLC

(* ------------------------------ bounds -------------------------------- *)
Depth == 5
PlaneHeight == 2
PlaneWidth == 16
MaxLabel == 2
CleanHeight == 11
CleanWidth == 17

(* ------------------------- program constants -------------------------- *)
InterpMinSize_five == 25 \div 5
InterpMinSize == 25
CleanupMinSize_forty == 2 * 20
CleanupMinSize_five == 20 \div 4
CleanupMinSize == 20
CleanupHoleArea == 50
PetPercentileTumor == 80
PetPercentileOther == 60

(* the (Y, X) shape of the planes of the loaded volume *)
VARIABLE shape
Height == shape[1]
Width == shape[2]

Rows == 1..Height
Cols == 1..Width
Pix == Rows \X Cols
Slices == 0..(Depth - 1)

(* ------------------------- small arithmetic --------------------------- *)
Abs(n) == IF n < 0 THEN -n ELSE n
Clamp(n, lo, hi) == IF n < lo THEN lo ELSE IF n > hi THEN hi ELSE n

(* Evaluation only: the same set, enumerated, and the same function,      *)
(* tabulated.  A comprehension is otherwise kept as a predicate and        *)
(* evaluated again at every membership test or application.                *)
Enumerated(S) == UNION {{e} : e \in S}
Tabulated(f, T) == IF f \in T THEN f ELSE f

RECURSIVE SumSeq(_)
SumSeq(s) == IF s = <<>> THEN 0 ELSE Head(s) + SumSeq(Tail(s))

(* ------------------ skimage.filters.gaussian (nearest) ---------------- *)
(* Weights exp(-k^2 / (2 sigma^2)) for k = 0..radius, radius =             *)
(* int(4*sigma + 0.5), normalised and rounded to 1/10000.                  *)
Kernel1 == <<3990, 2420, 540, 44, 1>>
Kernel2 == <<1994, 1760, 1210, 648, 270, 88, 22, 4, 1>>
KernelSum(k) == k[1] + 2 * SumSeq(Tail(k))
Scale == KernelSum(Kernel1)
Unit == Scale * Scale

Weight(k, d) == k[Abs(d) + 1]
Radius(k) == Len(k) - 1

RECURSIVE FilterY(_, _, _, _, _)
FilterY(img, k, y, x, d) ==
    IF d > Radius(k) THEN 0
    ELSE Weight(k, d) * img[<<Clamp(y + d, 1, Height), x>>] + FilterY(img, k, y, x, d + 1)

RECURSIVE FilterX(_, _, _, _, _)
FilterX(img, k, y, x, d) ==
    IF d > Radius(k) THEN 0
    ELSE Weight(k, d) * img[<<y, Clamp(x + d, 1, Width)>>] + FilterX(img, k, y, x, d + 1)

AsFloat(mask) == [p \in Pix |-> IF p \in mask THEN 1 ELSE 0]

Image == [Pix -> Int]

gaussian(mask, k) ==
    LET f0 == Tabulated(AsFloat(mask), Image)
        f1 == Tabulated([p \in Pix |-> FilterY(f0, k, p[1], p[2], -Radius(k))], Image)
    IN  Tabulated([p \in Pix |-> FilterX(f1, k, p[1], p[2], -Radius(k))], Image)

(* ----------------------- skimage.morphology --------------------------- *)
disk(r) == Enumerated({o \in (-r..r) \X (-r..r) : o[1] * o[1] + o[2] * o[2] <= r * r})
Shift(p, o) == <<p[1] + o[1], p[2] + o[2]>>

binary_erosion(mask, fp) ==
    Enumerated({p \in Pix : \A o \in fp : Shift(p, o) \in Pix => Shift(p, o) \in mask})
binary_dilation(mask, fp) ==
    Enumerated({p \in Pix : \E o \in fp : Shift(p, o) \in mask})
binary_opening(mask, fp) == binary_dilation(binary_erosion(mask, fp), fp)
binary_closing(mask, fp) == binary_erosion(binary_dilation(mask, fp), fp)

Adjacent(p, q) == Abs(p[1] - q[1]) + Abs(p[2] - q[2]) = 1

RECURSIVE Grow(_, _)
Grow(S, mask) ==
    LET N == Enumerated({p \in mask \ S : \E q \in S : Adjacent(p, q)})
    IN  IF N = {} THEN S ELSE Grow(Enumerated(S \cup N), mask)

RECURSIVE Components(_)
Components(mask) ==
    IF mask = {} THEN {}
    ELSE LET c == Grow({CHOOSE p \in mask : TRUE}, mask)
         IN  {c} \cup Components(Enumerated(mask \ c))

remove_small_objects(mask, min_size) ==
    UNION {c \in Components(Enumerated(mask)) : Cardinality(c) >= min_size}
remove_small_holes(mask, area_threshold) ==
    Enumerated(Pix \ remove_small_objects(Pix \ mask, area_threshold))

(* ---------------- scipy.ndimage.distance_transform_edt ---------------- *)
SqDist(p, q) == (p[1] - q[1]) * (p[1] - q[1]) + (p[2] - q[2]) * (p[2] - q[2])
MinOf(S) == CHOOSE m \in S : \A n \in S : m <= n
(* squared distance from p to the nearest pixel of the non-empty set S *)
SqDistTo(p, S) == MinOf({SqDist(p, q) : q \in S})

(* Sign of the blend (1 - alpha) * start_dist + alpha * end_dist with      *)
(* alpha = a / d, from the squared distances.  A signed distance is        *)
(* -sqrt(inside) in the mask and +sqrt(outside) off it, and never 0.       *)
IsSquare(n) == \E r \in 0..n : r * r = n
IsPowerOfTwo(n) == \E e \in 0..n : 2 ^ e = n

(* squared signed distances for mask: p |-> <<inside?, squared distance>>. *)
(* With no background pixel at all the feature transform keeps its initial *)
(* value, index -1 on axis 0, and the distance is the row number.          *)
SignedSq(mask) ==
    LET fg == Enumerated(mask)
        bg == Enumerated(Pix \ mask)
    IN  Tabulated([p \in Pix |-> IF p \in fg
                                 THEN <<TRUE, IF bg = {} THEN p[1] * p[1]
                                              ELSE SqDistTo(p, bg)>>
                                 ELSE <<FALSE, SqDistTo(p, fg)>>],
                  [Pix -> BOOLEAN \X Nat])

(* -1, 0, +1: the sign of (d - a) * sd + a * ed in real arithmetic *)
BlendSign(s, e, a, d) ==
    IF s[1] /\ e[1] THEN -1
    ELSE IF ~s[1] /\ ~e[1] THEN 1
    ELSE LET in  == IF s[1] THEN (d - a) * (d - a) * s[2] ELSE a * a * e[2]
             out == IF s[1] THEN a * a * e[2] ELSE (d - a) * (d - a) * s[2]
         IN  IF out < in THEN -1 ELSE IF out > in THEN 1 ELSE 0

(* A blend that is 0 in real arithmetic is computed as exactly 0.0 when    *)
(* alpha is dyadic and both distances are integers, or when alpha = 1/2    *)
(* and the two distances are the same float; otherwise rounding decides.   *)
BlendExact(s, e, a, d) ==
    \/ IsPowerOfTwo(d) /\ IsSquare(s[2]) /\ IsSquare(e[2])
    \/ 2 * a = d /\ s[2] = e[2]

(* pixels of interior index i whose blend is 0 up to rounding only *)
RoundingTies(start_dist, end_dist, i, num_slices) ==
    {p \in Pix :
        /\ BlendSign(start_dist[p], end_dist[p], i + 1, num_slices + 1) = 0
        /\ ~BlendExact(start_dist[p], end_dist[p], i + 1, num_slices + 1)}

(* ------------------------- numpy.percentile --------------------------- *)
NonZero(pt) == {p \in Pix : pt[p] > 0}
CountLeq(pt, v) == Cardinality({p \in NonZero(pt) : pt[p] <= v})
(* k-th smallest (0-based) of the non-zero values of pt *)
KthSmallest(pt, k) ==
    MinOf({v \in {pt[p] : p \in NonZero(pt)} : CountLeq(pt, v) >= k + 1})
(* pt[p] > percentile(non-zero values, q), linear interpolation *)
AbovePercentile(pt, p, q) ==
    LET n  == Cardinality(NonZero(pt))
        lo == ((n - 1) * q) \div 100
        r  == ((n - 1) * q) % 100
        vlo == KthSmallest(pt, lo)
        vhi == IF r = 0 THEN vlo ELSE KthSmallest(pt, lo + 1)
    IN  100 * pt[p] > 100 * vlo + r * (vhi - vlo)

(* ---------------- _advanced_interpolate_gap_multiclass ---------------- *)
alpha_over_num_slices(i, num_slices) == <<i + 1, num_slices>>
(* alpha of interior index i, as <<numerator, denominator>> *)
alpha(i, num_slices) == <<i + 1, num_slices + 1>>

(* interp_dist <= 0; rnd holds the <<i, pixel>> whose zero blend rounds up *)
distance_mask(start_dist, end_dist, i, num_slices, rnd) ==
    LET al == alpha(i, num_slices)
    IN  {p \in Pix :
            LET sg == BlendSign(start_dist[p], end_dist[p], al[1], al[2])
            IN  sg < 0 \/ (sg = 0 /\ <<i, p>> \notin rnd)}

(* (1 - alpha) * start_smooth + alpha * end_smooth > 0.3 *)
morph_mask(start_smooth, end_smooth, i, num_slices) ==
    LET al == alpha(i, num_slices)
    IN  {p \in Pix :
            (al[2] - al[1]) * start_smooth[p] + al[1] * end_smooth[p]
                > 3 * al[2] * (Unit \div 10)}

pt_percentile(label_value) ==
    IF label_value = 1 THEN PetPercentileTumor ELSE PetPercentileOther

pt_mask_all_when_cold(current_pt, label_value) ==
    IF NonZero(current_pt) = {} THEN Pix
    ELSE Enumerated({p \in Pix : AbovePercentile(current_pt, p, pt_percentile(label_value))})

pt_mask(current_pt, label_value) ==
    IF NonZero(current_pt) = {} THEN {}
    ELSE Enumerated({p \in Pix : AbovePercentile(current_pt, p, pt_percentile(label_value))})

Fused_pet_decides(label_value, d, m, p) ==
    IF label_value = 1
    THEN 4 * d + 2 * m + 4 * p > 4
    ELSE 5 * d + 4 * m + 4 * p > 3

Fused_threshold_inclusive(label_value, d, m, p) ==
    IF label_value = 1
    THEN 4 * d + 2 * m + 4 * p >= 4
    ELSE 5 * d + 4 * m + 1 * p > 3

Fused_weights_swapped(label_value, d, m, p) ==
    IF label_value = 1
    THEN 5 * d + 4 * m + 1 * p > 3
    ELSE 4 * d + 2 * m + 4 * p > 4

(* combined_mask > threshold, weights and threshold in tenths *)
Fused(label_value, d, m, p) ==
    IF label_value = 1
    THEN 4 * d + 2 * m + 4 * p > 4
    ELSE 5 * d + 4 * m + 1 * p > 3

Bit(b) == IF b THEN 1 ELSE 0

combined(dm, mm, pm, label_value) ==
    Enumerated({p \in Pix : Fused(label_value, Bit(p \in dm), Bit(p \in mm), Bit(p \in pm))})

smooth_final(final_mask) ==
    IF final_mask = {} THEN {}
    ELSE remove_small_objects(
             binary_closing(binary_opening(final_mask, disk(1)), disk(2)),
             InterpMinSize)

advanced_interpolate_gap_multiclass_pet_behind(start_mask, end_mask, pt_slices, num_slices, label_value, rnd) ==
    LET start_dist == SignedSq(start_mask)
        end_dist == SignedSq(end_mask)
        start_smooth == gaussian(start_mask, Kernel2)
        end_smooth == gaussian(end_mask, Kernel2)
    IN  Tabulated(
            [j \in 1..num_slices |->
                smooth_final(
                    combined(distance_mask(start_dist, end_dist, j - 1, num_slices, rnd),
                             morph_mask(start_smooth, end_smooth, j - 1, num_slices),
                             pt_mask(pt_slices[j], label_value),
                             label_value))],
            [1..num_slices -> SUBSET Pix])

(* The distance fields and the smoothed anchors do not depend on i: the    *)
(* loop computes the same four images in every iteration.                  *)
(* pt_slices is 1-based here: pt_slices[i + 2] is the source's             *)
(* pt_slices[i + 1].  The result is the list of masks, 1-based.            *)
advanced_interpolate_gap_multiclass(start_mask, end_mask, pt_slices, num_slices, label_value, rnd) ==
    LET start_dist == SignedSq(start_mask)
        end_dist == SignedSq(end_mask)
        start_smooth == gaussian(start_mask, Kernel2)
        end_smooth == gaussian(end_mask, Kernel2)
    IN  Tabulated(
            [j \in 1..num_slices |->
                smooth_final(
                    combined(distance_mask(start_dist, end_dist, j - 1, num_slices, rnd),
                             morph_mask(start_smooth, end_smooth, j - 1, num_slices),
                             pt_mask(pt_slices[j + 1], label_value),
                             label_value))],
            [1..num_slices -> SUBSET Pix])

(* every <<i, pixel>> of the gap whose blend is 0 up to rounding only *)
AllRoundingTies(start_mask, end_mask, num_slices) ==
    LET start_dist == SignedSq(start_mask)
        end_dist == SignedSq(end_mask)
    IN  UNION {{<<i, p>> : p \in RoundingTies(start_dist, end_dist, i, num_slices)} :
                i \in 0..(num_slices - 1)}

(* ------------------------------ volumes ------------------------------- *)
EmptyPlane == [p \in Pix |-> 0]
Paint(plane, mask, label_value) ==
    [p \in Pix |-> IF p \in mask THEN label_value ELSE plane[p]]
LabelMask(plane, label_value) == Enumerated({p \in Pix : plane[p] = label_value})
Foreground(plane) == {p \in Pix : plane[p] > 0}

(* planes an annotator draws: two thin columns of class 1, two thin        *)
(* columns of class 2 one pixel to their right, a large class 1 region     *)
ThinPlane  == Paint(EmptyPlane, Rows \X {2, 4}, 1)
NodePlane  == Paint(EmptyPlane, Rows \X {3, 5}, 2)
LargePlane == Paint(EmptyPlane, Rows \X (1..(Width - 3)), 1)
DrawnPlanes == {ThinPlane, NodePlane, LargePlane}

(* sparse annotation: at most two drawn slices anywhere, or every other    *)
(* slice drawn from the first one on                                       *)
Drawn(v) == {z \in Slices : v[z] # EmptyPlane}
SparseVolumes ==
    {v \in [Slices -> DrawnPlanes \cup {EmptyPlane}] :
        \/ Cardinality(Drawn(v)) <= 2
        \/ Drawn(v) = {z \in Slices : z % 2 = 0}}

(* PET volumes: no uptake at all, and uptake around the node columns in a  *)
(* PET volume two slices shorter than the label volume                     *)
ZeroPet == [p \in Pix |-> 0]
HotPet  == [p \in Pix |-> IF p[2] \in 3..6 THEN 4 ELSE 1]
PetVolumes ==
    {[z \in Slices |-> ZeroPet], [z \in 0..(Depth - 3) |-> HotPet]}

NoVolume == <<>>

(* ------------------------------- state -------------------------------- *)
VARIABLES
    mask_data,          \* self.mask_layer.data
    pt_data,            \* self.pt_layer.data
    pc,                 \* "idle", "interp" or "cleanup": the running handler
    interpolated_mask,  \* local of _smart_interpolate
    gap_i,              \* index i of the gap loop (1-based into segmented_slices)
    label_i,            \* position of the label loop in unique_labels
    cleaned_mask,       \* local of _cleanup_segmentation
    slice_i,            \* index i of the cleanup loop
    dialog,             \* the message box shown by the last handler
    prev_data,          \* history: mask_layer.data when the last handler began
    last_op,            \* history: how the last handler ended
    prev_op,            \* history: how the handler before it ended
    written,            \* history: <<label, z, pixel>> of the masks composited by the last handler
    alphas              \* history: alphas of its last full interpolator call

(* the rest of the desktop viewer, the finals folder, and the notebook app *)
VARIABLES
    current_patient_idx, \* HECKTORViewer.current_patient_idx
    patient_combo,       \* current index of HECKTORViewer.patient_combo
    original_mask,       \* HECKTORViewer.original_mask
    finals,              \* finals folder: the file {patient}_{annotator}.nii.gz
    annotator_id,        \* SimpleHECKTORApp.annotator_id
    current_patient,     \* SimpleHECKTORApp.current_patient
    current_data         \* SimpleHECKTORApp.current_data is loaded

viewer_vars == <<current_patient_idx, patient_combo, original_mask>>
app_vars == <<annotator_id, current_patient, current_data>>
session_vars == <<viewer_vars, finals, app_vars>>

vars == <<shape, mask_data, pt_data, pc, interpolated_mask, gap_i, label_i, cleaned_mask,
          slice_i, dialog, prev_data, last_op, prev_op, written, alphas, session_vars>>

(* patients of the data folder, by their index in the sorted patient list *)
NumPatients == 2
Patients == 0..(NumPatients - 1)
NoFile == <<>>
NoAnnotator == ""
NoPatient == -1

(* the first patient loaded without a label file, nothing saved, nobody    *)
(* logged in to the notebook app                                           *)
FreshSession ==
    /\ current_patient_idx = 0
    /\ patient_combo = 0
    /\ original_mask = [z \in Slices |-> EmptyPlane]
    /\ finals = [i \in Patients |-> NoFile]
    /\ annotator_id = NoAnnotator
    /\ current_patient = NoPatient
    /\ current_data = FALSE

(* ------------------------- _smart_interpolate ------------------------- *)
IsAnchor_class1(plane) == \E p \in Pix : plane[p] = 1
IsAnchor(plane) == \E p \in Pix : plane[p] > 0

RECURSIVE AscendingFrom(_, _, _)
AscendingFrom(S, n, hi) ==
    IF n > hi THEN <<>>
    ELSE IF n \in S THEN <<n>> \o AscendingFrom(S, n + 1, hi)
    ELSE AscendingFrom(S, n + 1, hi)

segmented_slices(mask) ==
    AscendingFrom({z \in DOMAIN mask : IsAnchor(mask[z])}, 0, Depth - 1)

LabelsIn(mask) == {mask[z][p] : z \in DOMAIN mask, p \in Pix} \ {0}
unique_labels_descending(mask) ==
    LET asc == AscendingFrom(LabelsIn(mask), 1, MaxLabel)
    IN  [i \in 1..Len(asc) |-> asc[Len(asc) + 1 - i]]
unique_labels(mask) == AscendingFrom(LabelsIn(mask), 1, MaxLabel)

TooFewAnchors_none(segs) == Len(segs) < 1
TooFewAnchors(segs) == Len(segs) < 2
HasGap_inclusive(start_slice, end_slice) == end_slice - start_slice >= 1
HasGap(start_slice, end_slice) == end_slice - start_slice > 1

fade_alpha_reversed(j, start_slice, end_slice) == <<end_slice - start_slice - 1 - j, end_slice - start_slice>>
fade_alpha_from_zero(j, start_slice, end_slice) == <<j, end_slice - start_slice>>
(* alpha of the fade fallback at interior offset j *)
fade_alpha(j, start_slice, end_slice) == <<j + 1, end_slice - start_slice>>

fade_mask_thresholds_swapped(blurred, from_start, j, start_slice, end_slice) ==
    LET al == fade_alpha(j, start_slice, end_slice)
    IN  IF from_start
        THEN Enumerated({p \in Pix :
                 blurred[p] * al[2] > (Unit \div 10) * (7 * al[2] - 4 * al[1])})
        ELSE Enumerated({p \in Pix :
                 blurred[p] * al[2] > (Unit \div 10) * (3 * al[2] + 4 * al[1])})

(* gaussian(active_mask, sigma=1.0) > 0.3 + 0.4 * alpha, or > 0.7 - 0.4 * alpha *)
fade_mask(blurred, from_start, j, start_slice, end_slice) ==
    LET al == fade_alpha(j, start_slice, end_slice)
    IN  IF from_start
        THEN Enumerated({p \in Pix :
                 blurred[p] * al[2] > (Unit \div 10) * (3 * al[2] + 4 * al[1])})
        ELSE Enumerated({p \in Pix :
                 blurred[p] * al[2] > (Unit \div 10) * (7 * al[2] - 4 * al[1])})

(* the fade masks of a gap, 1-based: the blurred active mask is the same   *)
(* image in every iteration of the loop                                    *)
fade_slices(start_label_mask, end_label_mask, start_slice, end_slice) ==
    LET active_mask == IF start_label_mask # {} THEN start_label_mask ELSE end_label_mask
        blurred == gaussian(active_mask, Kernel1)
    IN  Tabulated(
            [j \in 1..(end_slice - start_slice - 1) |->
                fade_mask(blurred, start_label_mask # {}, j - 1, start_slice, end_slice)],
            [1..(end_slice - start_slice - 1) -> SUBSET Pix])

Composite_next_slice(vol, slice_idx, mask, label_value) ==
    [vol EXCEPT ![slice_idx + 1] = Paint(vol[slice_idx + 1], mask, label_value)]
(* interpolated_mask[slice_idx][mask] = label_value *)
Composite(vol, slice_idx, mask, label_value) ==
    [vol EXCEPT ![slice_idx] = Paint(vol[slice_idx], mask, label_value)]

RECURSIVE CompositeAll(_, _, _, _, _)
(* masks[j + 1] goes to slice start_slice + 1 + j, for j = from..Len(masks) - 1 *)
CompositeAll(vol, start_slice, masks, label_value, from) ==
    IF from >= Len(masks) THEN vol
    ELSE CompositeAll(Composite(vol, start_slice + 1 + from, masks[from + 1], label_value),
                      start_slice, masks, label_value, from + 1)

Claimed(start_slice, masks, label_value) ==
    UNION {{<<label_value, start_slice + j, p>> : p \in masks[j]} : j \in 1..Len(masks)}

(* the loop position of the running _smart_interpolate *)
segs == segmented_slices(mask_data)
labels == unique_labels(mask_data)
start_slice == segs[gap_i]
end_slice_last == segs[Len(segs)]
end_slice == segs[gap_i + 1]
label_value == labels[label_i]
start_label_mask_any_class == Foreground(mask_data[start_slice])
start_label_mask == LabelMask(mask_data[start_slice], label_value)
end_label_mask == LabelMask(mask_data[end_slice], label_value)
num_interior == end_slice - start_slice - 1
PetDepth == Cardinality(DOMAIN pt_data)

InGap == pc = "interp" /\ gap_i <= Len(segs) - 1 /\ HasGap(start_slice, end_slice)
BothPresent == start_label_mask # {} /\ end_label_mask # {}
OnePresent_start_only == ~BothPresent /\ start_label_mask # {}
OnePresent == ~BothPresent /\ (start_label_mask # {} \/ end_label_mask # {})

(* pt_slices = pt_data[start_slice:end_slice+1]; pt_slices[i + 1] exists for  *)
(* every i in range(num_slices)                                            *)
PetCovers(start, end, depth) == end - start - 1 = 0 \/ end <= depth

NextLabel ==
    IF label_i < Len(labels)
    THEN label_i' = label_i + 1 /\ gap_i' = gap_i
    ELSE label_i' = 1 /\ gap_i' = gap_i + 1

LayerShowsLocal(layer, local) == local
(* the copy of line 668: writes to the local never show in the layer *)
LayerDuringPass(layer, local) == layer

Init ==
    /\ shape = <<PlaneHeight, PlaneWidth>>
    /\ mask_data \in SparseVolumes
    /\ pt_data \in PetVolumes
    /\ pc = "idle"
    /\ interpolated_mask = NoVolume
    /\ gap_i = 0
    /\ label_i = 0
    /\ cleaned_mask = NoVolume
    /\ slice_i = 0
    /\ dialog = "none"
    /\ prev_data = mask_data
    /\ last_op = "none"
    /\ prev_op = "none"
    /\ written = {}
    /\ alphas = <<>>
    /\ FreshSession

InsufficientData ==
    /\ pc = "idle"
    /\ TooFewAnchors(segs)
    /\ dialog' = "Insufficient Data"
    /\ prev_data' = mask_data
    /\ last_op' = "insufficient"
    /\ prev_op' = last_op
    /\ written' = {}
    /\ alphas' = <<>>
    /\ UNCHANGED <<session_vars, shape, mask_data, pt_data, pc, interpolated_mask, gap_i, label_i,
                   cleaned_mask, slice_i>>

BeginInterpolate ==
    /\ pc = "idle"
    /\ ~TooFewAnchors(segs)
    /\ pc' = "interp"
    /\ interpolated_mask' = mask_data
    /\ gap_i' = 1
    /\ label_i' = 1
    /\ prev_data' = mask_data
    /\ last_op' = "running"
    /\ prev_op' = last_op
    /\ written' = {}
    /\ alphas' = <<>>
    /\ dialog' = "none"
    /\ UNCHANGED <<session_vars, shape, mask_data, pt_data, cleaned_mask, slice_i>>

SkipAdjacent ==
    /\ pc = "interp" /\ gap_i <= Len(segs) - 1
    /\ ~HasGap(start_slice, end_slice)
    /\ gap_i' = gap_i + 1
    /\ UNCHANGED <<session_vars, shape, mask_data, pt_data, pc, interpolated_mask, label_i, cleaned_mask,
                   slice_i, dialog, prev_data, last_op, prev_op, written, alphas>>

InterpolateBoth ==
    /\ InGap /\ BothPresent
    /\ PetCovers(start_slice, end_slice, PetDepth)
    /\ \E rnd \in SUBSET AllRoundingTies(start_label_mask, end_label_mask, num_interior) :
         LET pt_slices == [k \in 1..(num_interior + 1) |-> pt_data[start_slice + k - 1]]
             interpolated_slices ==
                 advanced_interpolate_gap_multiclass(start_label_mask, end_label_mask,
                     pt_slices, num_interior, label_value, rnd)
         IN  /\ interpolated_mask' =
                    CompositeAll(interpolated_mask, start_slice, interpolated_slices,
                                 label_value, 0)
             /\ written' = written \cup Claimed(start_slice, interpolated_slices, label_value)
    /\ alphas' = [j \in 1..num_interior |-> alpha(j - 1, num_interior)]
    /\ mask_data' = LayerDuringPass(mask_data, interpolated_mask')
    /\ NextLabel
    /\ UNCHANGED <<session_vars, shape, pt_data, pc, cleaned_mask, slice_i, dialog, prev_data, last_op,
                   prev_op>>

RaiseIndexError ==
    /\ InGap /\ BothPresent
    /\ ~PetCovers(start_slice, end_slice, PetDepth)
    /\ pc' = "idle"
    /\ interpolated_mask' = NoVolume
    /\ gap_i' = 0
    /\ label_i' = 0
    /\ dialog' = "IndexError"
    /\ last_op' = "error"
    /\ UNCHANGED <<session_vars, shape, mask_data, pt_data, cleaned_mask, slice_i, prev_data, prev_op,
                   written, alphas>>

InterpolateFade ==
    /\ InGap /\ OnePresent
    /\ LET fades == fade_slices(start_label_mask, end_label_mask, start_slice, end_slice)
       IN  /\ interpolated_mask' =
                  CompositeAll(interpolated_mask, start_slice, fades, label_value, 0)
           /\ written' = written \cup Claimed(start_slice, fades, label_value)
    /\ mask_data' = LayerDuringPass(mask_data, interpolated_mask')
    /\ NextLabel
    /\ UNCHANGED <<session_vars, shape, pt_data, pc, cleaned_mask, slice_i, dialog, prev_data, last_op,
                   prev_op, alphas>>

SkipAbsent ==
    /\ InGap /\ ~BothPresent /\ ~OnePresent
    /\ NextLabel
    /\ UNCHANGED <<session_vars, shape, mask_data, pt_data, pc, interpolated_mask, cleaned_mask, slice_i,
                   dialog, prev_data, last_op, prev_op, written, alphas>>

CommitInterpolate_discard ==
    /\ pc = "interp" /\ gap_i > Len(segs) - 1
    /\ pc' = "idle"
    /\ interpolated_mask' = NoVolume
    /\ gap_i' = 0
    /\ label_i' = 0
    /\ dialog' = "Smart Interpolation Complete"
    /\ last_op' = "interp"
    /\ UNCHANGED <<session_vars, shape, mask_data, pt_data, cleaned_mask, slice_i, prev_data, prev_op,
                   written, alphas>>

CommitInterpolate ==
    /\ pc = "interp" /\ gap_i > Len(segs) - 1
    /\ mask_data' = interpolated_mask
    /\ pc' = "idle"
    /\ interpolated_mask' = NoVolume
    /\ gap_i' = 0
    /\ label_i' = 0
    /\ dialog' = "Smart Interpolation Complete"
    /\ last_op' = "interp"
    /\ UNCHANGED <<session_vars, shape, pt_data, cleaned_mask, slice_i, prev_data, prev_op, written,
                   alphas>>

(* ----------------------- _cleanup_segmentation ------------------------ *)
clean_label(label_mask) ==
    binary_closing(
        binary_opening(
            remove_small_holes(remove_small_objects(label_mask, CleanupMinSize),
                               CleanupHoleArea),
            disk(1)),
        disk(2))

WriteLabel_as_true(slice_cleaned, label_mask, value) ==
    [p \in Pix |-> IF p \in label_mask THEN 1 ELSE slice_cleaned[p]]
(* slice_cleaned[label_mask] = label_value *)
WriteLabel(slice_cleaned, label_mask, value) ==
    [p \in Pix |-> IF p \in label_mask THEN value ELSE slice_cleaned[p]]

RECURSIVE clean_slice(_, _, _, _)
(* slice_cleaned after the labels unique[from..] are written, in that order *)
clean_slice(slice_mask, slice_cleaned, unique, from) ==
    IF from > Len(unique) THEN slice_cleaned
    ELSE LET label_mask == LabelMask(slice_mask, unique[from])
         IN  clean_slice(slice_mask,
                 IF label_mask = {} THEN slice_cleaned
                 ELSE WriteLabel(slice_cleaned, clean_label(label_mask), unique[from]),
                 unique, from + 1)

ZeroVolume == [z \in Slices |-> EmptyPlane]

BeginCleanup ==
    /\ pc = "idle"
    /\ pc' = "cleanup"
    /\ cleaned_mask' = ZeroVolume
    /\ slice_i' = 0
    /\ prev_data' = mask_data
    /\ last_op' = "running"
    /\ prev_op' = last_op
    /\ written' = {}
    /\ alphas' = <<>>
    /\ dialog' = "none"
    /\ UNCHANGED <<session_vars, shape, mask_data, pt_data, interpolated_mask, gap_i, label_i>>

CleanupSlice ==
    /\ pc = "cleanup" /\ slice_i < Depth
    /\ cleaned_mask' =
          IF IsAnchor(mask_data[slice_i])
          THEN [cleaned_mask EXCEPT ![slice_i] =
                   Tabulated(clean_slice(mask_data[slice_i], EmptyPlane, labels, 1),
                             [Pix -> Nat])]
          ELSE cleaned_mask
    /\ slice_i' = slice_i + 1
    /\ mask_data' = LayerDuringPass(mask_data, cleaned_mask')
    /\ UNCHANGED <<session_vars, shape, pt_data, pc, interpolated_mask, gap_i, label_i, dialog,
                   prev_data, last_op, prev_op, written, alphas>>

CommitCleanup ==
    /\ pc = "cleanup" /\ slice_i = Depth
    /\ mask_data' = cleaned_mask
    /\ pc' = "idle"
    /\ cleaned_mask' = NoVolume
    /\ slice_i' = 0
    /\ last_op' = "cleanup"
    /\ UNCHANGED <<session_vars, shape, pt_data, interpolated_mask, gap_i, label_i, dialog, prev_data,
                   prev_op, written, alphas>>

Next ==
    \/ InsufficientData
    \/ BeginInterpolate
    \/ SkipAdjacent
    \/ InterpolateBoth
    \/ RaiseIndexError
    \/ InterpolateFade
    \/ SkipAbsent
    \/ CommitInterpolate
    \/ BeginCleanup
    \/ CleanupSlice
    \/ CommitCleanup

Spec == Init /\ [][Next]_vars

(* ------------------- the cleaner on drawn planes ---------------------- *)
(* planes of CleanHeight x CleanWidth pixels as an annotator draws them,   *)
(* every shape three pixels or more from the border of the plane: a 3x3    *)
(* square and a lone voxel; a 5x6 block of class 2; a one pixel wide snake *)
(* of 30 pixels; two 3x3 squares joined by a one pixel bridge; a one pixel *)
(* ring around a lone voxel of its class; a ring of class 2 around a core  *)
(* of class 1                                                              *)
Rect(r1, r2, c1, c2) == (r1..r2) \X (c1..c2)
RingMask == Rect(4, 8, 4, 10) \ Rect(5, 7, 5, 9)
SnakeMask ==
    Rect(4, 4, 4, 14) \cup {<<5, 14>>} \cup Rect(6, 6, 4, 14) \cup {<<7, 4>>}
        \cup Rect(8, 8, 4, 9)
SpeckPlane == Paint(EmptyPlane, Rect(5, 7, 4, 6) \cup {<<6, 12>>}, 1)
BlockPlane == Paint(EmptyPlane, Rect(4, 8, 4, 9), 2)
SnakePlane == Paint(EmptyPlane, SnakeMask, 1)
DumbbellPlane ==
    Paint(EmptyPlane, Rect(5, 7, 4, 6) \cup Rect(5, 7, 12, 14) \cup Rect(6, 6, 7, 11), 1)
RingIslandPlane == Paint(EmptyPlane, RingMask \cup {<<6, 7>>}, 1)
RingCorePlane == Paint(Paint(EmptyPlane, RingMask, 2), Rect(6, 6, 6, 8), 1)
(* a ring of class 1 around a block of class 2 *)
RingBlockPlane ==
    Paint(Paint(EmptyPlane, Rect(4, 8, 4, 14) \ Rect(5, 7, 5, 13), 1), Rect(5, 7, 6, 12), 2)
CleanPlanes ==
    {SpeckPlane, BlockPlane, SnakePlane, DumbbellPlane, RingIslandPlane, RingCorePlane,
     RingBlockPlane}
CleanVolumes ==
    {v \in [Slices -> CleanPlanes \cup {EmptyPlane}] : Drawn(v) \subseteq {0, Depth - 1}}

CleanInit ==
    /\ shape = <<CleanHeight, CleanWidth>>
    /\ mask_data \in CleanVolumes
    /\ pt_data = [z \in Slices |-> ZeroPet]
    /\ pc = "idle"
    /\ interpolated_mask = NoVolume
    /\ gap_i = 0
    /\ label_i = 0
    /\ cleaned_mask = NoVolume
    /\ slice_i = 0
    /\ dialog = "none"
    /\ prev_data = mask_data
    /\ last_op = "none"
    /\ prev_op = "none"
    /\ written = {}
    /\ alphas = <<>>
    /\ FreshSession

CleanNext ==
    \/ BeginCleanup
    \/ CleanupSlice
    \/ CommitCleanup

CleanSpec == CleanInit /\ [][CleanNext]_vars

(* ------------- two anchors, both classes wide, varying PET ------------ *)
(* a wide region of class 2, and a PET whose hot columns move by one from  *)
(* slice to slice and cover less than a fifth of the plane                 *)
WideNodePlane == Paint(EmptyPlane, Rows \X (4..Width), 2)
SlicePet(z) ==
    [p \in Pix |-> IF p[2] \in (Width - 2 + (z % 2))..(Width - 1 + (z % 2)) THEN 4 ELSE 1]
GapPlanes == {ThinPlane, NodePlane, LargePlane, WideNodePlane}
GapVolumes ==
    {v \in [Slices -> GapPlanes \cup {EmptyPlane}] :
        \/ Drawn(v) = {}
        \/ \E k \in 2..(Depth - 1) : Drawn(v) = {0, k}
        \/ Drawn(v) = {0, 2, 4} /\ v[0] = LargePlane /\ v[2] = LargePlane
                                /\ v[4] = WideNodePlane}
GapPetVolumes ==
    {[z \in Slices |-> ZeroPet], [z \in Slices |-> SlicePet(z)],
     [z \in 0..(Depth - 3) |-> SlicePet(z)]}

GapInit ==
    /\ shape = <<PlaneHeight, PlaneWidth>>
    /\ mask_data \in GapVolumes
    /\ pt_data \in GapPetVolumes
    /\ pc = "idle"
    /\ interpolated_mask = NoVolume
    /\ gap_i = 0
    /\ label_i = 0
    /\ cleaned_mask = NoVolume
    /\ slice_i = 0
    /\ dialog = "none"
    /\ prev_data = mask_data
    /\ last_op = "none"
    /\ prev_op = "none"
    /\ written = {}
    /\ alphas = <<>>
    /\ FreshSession

GapSpec == GapInit /\ [][Next]_vars

(* --------------- desktop viewer: patients and saving ------------------ *)
(* volumes that differ in one voxel only, enough to tell masks apart *)
NavSide == 1
Voxel(l) == [z \in Slices |-> [p \in Pix |-> IF z = 0 /\ p = <<1, 1>> THEN l ELSE 0]]
(* labels/{patient}.nii.gz: the first patient has one, the others none *)
LabelFile(i) == IF i = 0 THEN Voxel(1) ELSE NoFile
(* {patient}__PT.nii.gz resampled to the CT *)
PetFile(i) == [z \in Slices |-> [p \in Pix |-> i]]

(* the mask load_patient shows: the annotator's file, else the label file, *)
(* else zeros of the CT's shape                                            *)
LoadedMask(folder, i) ==
    IF folder[i] # NoFile THEN folder[i]
    ELSE IF LabelFile(i) # NoFile THEN LabelFile(i)
    ELSE [z \in Slices |-> EmptyPlane]

has_unsaved_changes == mask_data # original_mask

SaveAndContinue == "Save & Continue"
DiscardYes == "Discard & Continue, Yes"
DiscardNo == "Discard & Continue, No"
Cancel == "Cancel"
Clicks == {SaveAndContinue, DiscardYes, DiscardNo, Cancel}

unsaved_choice_without_confirmation(unsaved, clicked) ==
    IF ~unsaved THEN "continue"
    ELSE IF clicked \in {SaveAndContinue, DiscardYes, DiscardNo} THEN "continue"
    ELSE "cancel"
(* what _show_unsaved_changes_dialog returns *)
unsaved_choice(unsaved, clicked) ==
    IF ~unsaved THEN "continue"
    ELSE IF clicked = SaveAndContinue THEN "continue"
    ELSE IF clicked = DiscardYes THEN "continue"
    ELSE "cancel"

(* the finals folder after _save_mask *)
save_mask(folder, i, mask) == [folder EXCEPT ![i] = mask]

(* patient_combo.setCurrentIndex(self.current_patient_idx) *)
RevertCombo(index, current) == current

(* a handler that asks about unsaved changes and then loads patient target; *)
(* combo is where the dropdown stands if the handler does not load          *)
SwitchPatient(target, combo, clicked, op) ==
    LET unsaved == has_unsaved_changes
        choice == unsaved_choice(unsaved, clicked)
        folder == IF unsaved /\ clicked = SaveAndContinue
                  THEN save_mask(finals, current_patient_idx, mask_data)
                  ELSE finals
    IN  /\ finals' = folder
        /\ IF choice = "continue"
           THEN /\ current_patient_idx' = target
                /\ patient_combo' = target
                /\ mask_data' = LoadedMask(folder, target)
                /\ original_mask' = LoadedMask(folder, target)
                /\ pt_data' = PetFile(target)
           ELSE /\ patient_combo' = combo
                /\ UNCHANGED <<current_patient_idx, mask_data, original_mask, pt_data>>
        /\ dialog' = IF unsaved THEN clicked ELSE "none"
        /\ last_op' = op
        /\ UNCHANGED <<app_vars, shape, pc, interpolated_mask, gap_i, label_i, cleaned_mask,
                       slice_i, prev_data, prev_op, written, alphas>>

NextPatient ==
    /\ pc = "idle"
    /\ \E clicked \in Clicks :
          SwitchPatient((current_patient_idx + 1) % NumPatients, patient_combo, clicked, "next")

(* (current_patient_idx - 1) % len(patients), which is never negative *)
PrevPatient ==
    /\ pc = "idle"
    /\ \E clicked \in Clicks :
          SwitchPatient((current_patient_idx + NumPatients - 1) % NumPatients,
                        patient_combo, clicked, "prev")

(* the dropdown already stands on index when the handler runs *)
OnPatientSelected ==
    /\ pc = "idle"
    /\ \E index \in Patients : \E clicked \in Clicks :
          /\ index # current_patient_idx
          /\ SwitchPatient(index, RevertCombo(index, current_patient_idx), clicked, "select")

(* the annotator paints or erases the voxel *)
PaintVoxel ==
    /\ pc = "idle"
    /\ \E l \in 0..MaxLabel :
          /\ mask_data[0][<<1, 1>>] # l
          /\ mask_data' = [mask_data EXCEPT ![0] = [@ EXCEPT ![<<1, 1>>] = l]]
    /\ dialog' = "none"
    /\ last_op' = "paint"
    /\ UNCHANGED <<session_vars, shape, pt_data, pc, interpolated_mask, gap_i, label_i,
                   cleaned_mask, slice_i, prev_data, prev_op, written, alphas>>

SaveMask ==
    /\ pc = "idle"
    /\ finals' = save_mask(finals, current_patient_idx, mask_data)
    /\ original_mask' = mask_data
    /\ dialog' = "Save Successful"
    /\ last_op' = "save"
    /\ UNCHANGED <<current_patient_idx, patient_combo, app_vars, shape, mask_data, pt_data,
                   pc, interpolated_mask, gap_i, label_i, cleaned_mask, slice_i, prev_data,
                   prev_op, written, alphas>>

(* _reload_original_mask answered Yes *)
ReloadOriginal ==
    /\ pc = "idle"
    /\ mask_data' = original_mask
    /\ dialog' = "Original Mask Reloaded"
    /\ last_op' = "reload"
    /\ UNCHANGED <<session_vars, shape, pt_data, pc, interpolated_mask, gap_i, label_i,
                   cleaned_mask, slice_i, prev_data, prev_op, written, alphas>>

(* the viewer starts on the first patient; the annotator may have saved    *)
(* work for a patient in an earlier session                                *)
SavedBefore ==
    {[i \in Patients |-> NoFile],
     [i \in Patients |-> IF i = 0 THEN Voxel(2) ELSE NoFile],
     [i \in Patients |-> IF i = 1 THEN Voxel(1) ELSE NoFile]}

SessionInit ==
    /\ shape = <<NavSide, NavSide>>
    /\ finals \in SavedBefore
    /\ current_patient_idx = 0
    /\ patient_combo = 0
    /\ mask_data = LoadedMask(finals, 0)
    /\ original_mask = LoadedMask(finals, 0)
    /\ pt_data = PetFile(0)
    /\ pc = "idle"
    /\ interpolated_mask = NoVolume
    /\ gap_i = 0
    /\ label_i = 0
    /\ cleaned_mask = NoVolume
    /\ slice_i = 0
    /\ dialog = "none"
    /\ prev_data = mask_data
    /\ last_op = "none"
    /\ prev_op = "none"
    /\ written = {}
    /\ alphas = <<>>
    /\ annotator_id = NoAnnotator
    /\ current_patient = NoPatient
    /\ current_data = FALSE

(* ------------------- notebook app (SimpleHECKTORApp) ------------------ *)
(* the id the desktop viewer runs under, and an input too short to log in  *)
Annotator == "annotator"
LoginInputs == {"x", Annotator}

HandleLogin ==
    /\ \E id \in LoginInputs :
          /\ Len(id) >= 2
          /\ annotator_id' = id
    /\ dialog' = "Welcome"
    /\ last_op' = "login"
    /\ UNCHANGED <<viewer_vars, finals, current_patient, current_data, shape, mask_data,
                   pt_data, pc, interpolated_mask, gap_i, label_i, cleaned_mask, slice_i,
                   prev_data, prev_op, written, alphas>>

(* load_patient_data: current_data is set when both images can be read *)
OnPatientSelect ==
    /\ \E new \in Patients : \E readable \in BOOLEAN :
          /\ current_patient' = new
          /\ current_data' = readable
          /\ dialog' = IF readable THEN "Loaded" ELSE "Error loading"
    /\ last_op' = "app_select"
    /\ UNCHANGED <<viewer_vars, finals, annotator_id, shape, mask_data, pt_data, pc,
                   interpolated_mask, gap_i, label_i, cleaned_mask, slice_i, prev_data,
                   prev_op, written, alphas>>

(* launch_napari opens a viewer of its own on the mask it finds *)
LaunchNapari ==
    /\ current_patient # NoPatient /\ current_data
    /\ annotator_id # NoAnnotator
    /\ dialog' = IF finals[current_patient] # NoFile THEN "Loaded your existing annotation"
                 ELSE IF LabelFile(current_patient) # NoFile THEN "Loaded original annotation"
                 ELSE "Created empty mask"
    /\ last_op' = "launch"
    /\ UNCHANGED <<session_vars, shape, mask_data, pt_data, pc, interpolated_mask, gap_i,
                   label_i, cleaned_mask, slice_i, prev_data, prev_op, written, alphas>>

(* sitk.WriteImage(zeros_like(ct), finals/{patient}_{annotator}.nii.gz) *)
completion_marker(folder, i) == [folder EXCEPT ![i] = [z \in Slices |-> EmptyPlane]]

MarkComplete ==
    /\ current_patient # NoPatient /\ current_data
    /\ annotator_id # NoAnnotator
    /\ finals' = completion_marker(finals, current_patient)
    /\ \E readable \in BOOLEAN : current_data' = readable
    /\ dialog' = "Marked complete"
    /\ last_op' = "mark_complete"
    /\ UNCHANGED <<viewer_vars, annotator_id, current_patient, shape, mask_data, pt_data, pc,
                   interpolated_mask, gap_i, label_i, cleaned_mask, slice_i, prev_data,
                   prev_op, written, alphas>>

SessionNext ==
    \/ PaintVoxel
    \/ SaveMask
    \/ ReloadOriginal
    \/ NextPatient
    \/ PrevPatient
    \/ OnPatientSelected
    \/ HandleLogin
    \/ OnPatientSelect
    \/ LaunchNapari
    \/ MarkComplete

SessionSpec == SessionInit /\ [][SessionNext]_vars

(* ============================ properties ============================== *)
(* the slices of a volume that hold a voxel other than background, the     *)
(* pairs of consecutive ones, and the classes of a plane                   *)
Anchors(vol) == {z \in DOMAIN vol : \E p \in Pix : vol[z][p] # 0}
Gaps(vol) ==
    {g \in Anchors(vol) \X Anchors(vol) :
        g[1] < g[2] /\ \A z \in (g[1] + 1)..(g[2] - 1) : z \notin Anchors(vol)}
Interior(g) == (g[1] + 1)..(g[2] - 1)
ClassesIn(plane) == {plane[p] : p \in Pix} \ {0}
Relabel(vol, k) == [z \in DOMAIN vol |-> [p \in Pix |-> IF vol[z][p] # 0 THEN k ELSE 0]]
PassDone == pc = "idle" /\ last_op = "interp"

(* C1: smart interpolation invoked on a volume with fewer than two anchor  *)
(* slices reports "Insufficient Data" and leaves the label volume as it is *)
C1_InsufficientData ==
    [][(pc = "idle" /\ Cardinality(Anchors(mask_data)) < 2 /\ pc' # "cleanup")
          => (dialog' = "Insufficient Data" /\ mask_data' = mask_data /\ pc' = "idle")]_vars

C1_Witness ==
    /\ last_op = "insufficient" /\ dialog = "Insufficient Data"
    /\ Cardinality(Anchors(mask_data)) = 1 /\ mask_data = prev_data

(* C2: segmented_slices lists, in ascending order, exactly the slices that *)
(* hold a voxel > 0, and the list is the same whatever class they hold     *)
C2_AnchorDetection ==
    LET found == segmented_slices(mask_data)
    IN  /\ \A i \in 1..(Len(found) - 1) : found[i] < found[i + 1]
        /\ {found[i] : i \in 1..Len(found)} = Anchors(mask_data)
        /\ \A k \in 1..MaxLabel : segmented_slices(Relabel(mask_data, k)) = found

C2_Witness ==
    /\ pc = "interp" /\ Len(segs) >= 3
    /\ \E i \in 1..Len(segs) : ClassesIn(mask_data[segs[i]]) = {2}
    /\ \E i \in 1..Len(segs) : ClassesIn(mask_data[segs[i]]) = {1}
    /\ \E z \in Slices : z \notin Anchors(mask_data)

(* C3: during one interpolation pass no composite write replaces a voxel   *)
(* that already holds a class with another class                           *)
C3_NoOverwrite ==
    [][(pc = "interp" /\ pc' = "interp")
          => \A z \in Slices : \A p \in Pix :
                interpolated_mask[z][p] # 0
                    => interpolated_mask'[z][p] = interpolated_mask[z][p]]_vars

TumorToNodeGaps ==
    {g \in Gaps(prev_data) :
        /\ g[2] - g[1] > 1
        /\ ClassesIn(prev_data[g[1]]) = {1}
        /\ ClassesIn(prev_data[g[2]]) = {2}}

(* C5 as stated: such a gap gets no class-1 pixel in any interior slice    *)
C5_NoTumorInInterior ==
    PassDone => \A g \in TumorToNodeGaps : \A z \in Interior(g) :
                    1 \notin ClassesIn(mask_data[z])

(* C5: in a gap from a class-1-only anchor to a class-2-only anchor,       *)
(* class 1 fades out from the start anchor: interior slice start+1+j holds *)
(* class 1 exactly where the sigma-1 blur of the start anchor's class-1    *)
(* mask exceeds 0.3 + 0.4*(j+1)/(end-start) and the blur of the end        *)
(* anchor's class-2 mask does not exceed 0.7 - 0.4*(j+1)/(end-start), and  *)
(* class 2 where the latter exceeds it                                     *)
C5_TumorFadesOut ==
    PassDone => \A g \in TumorToNodeGaps :
        LET len == g[2] - g[1]
            tumor == gaussian({p \in Pix : prev_data[g[1]][p] = 1}, Kernel1)
            node == gaussian({p \in Pix : prev_data[g[2]][p] = 2}, Kernel1)
            FadeOut(j) == {p \in Pix :
                tumor[p] * len > (Unit \div 10) * (3 * len + 4 * (j + 1))}
            FadeIn(j) == {p \in Pix :
                node[p] * len > (Unit \div 10) * (7 * len - 4 * (j + 1))}
        IN  \A j \in 0..(len - 2) :
                /\ {p \in Pix : mask_data[g[1] + 1 + j][p] = 1} = FadeOut(j) \ FadeIn(j)
                /\ {p \in Pix : mask_data[g[1] + 1 + j][p] = 2} = FadeIn(j)

C5_Witness ==
    /\ PassDone
    /\ \E g \in TumorToNodeGaps : \E z \in Interior(g) : 1 \in ClassesIn(mask_data[z])

(* C6: a class absent from both anchors of a gap appears in no interior    *)
(* slice of that gap after the pass                                        *)
C6_AbsentClassStaysAbsent ==
    (pc = "interp" \/ PassDone) =>
        LET vol == IF pc = "interp" THEN interpolated_mask ELSE mask_data
        IN  \A g \in Gaps(prev_data) : \A l \in 1..MaxLabel :
                (l \notin ClassesIn(prev_data[g[1]]) /\ l \notin ClassesIn(prev_data[g[2]]))
                    => \A z \in Interior(g) : l \notin ClassesIn(vol[z])

C6_Witness ==
    /\ PassDone
    /\ \E g \in Gaps(prev_data) : \E l \in LabelsIn(prev_data) :
          /\ l \notin ClassesIn(prev_data[g[1]])
          /\ l \notin ClassesIn(prev_data[g[2]])
          /\ \E z \in Interior(g) : mask_data[z] # EmptyPlane

(* C7: a pair of consecutive anchors with end - start = 1 is passed over   *)
(* in one step that writes nothing, and a pass over a volume whose anchors *)
(* are all adjacent returns the volume unchanged                           *)
C7_AdjacentAnchorsWriteNothing ==
    /\ [][LET found == segmented_slices(mask_data)
          IN  (pc = "interp" /\ gap_i < Len(found) /\ found[gap_i + 1] - found[gap_i] = 1)
                  => /\ interpolated_mask' = interpolated_mask
                     /\ written' = written
                     /\ gap_i' = gap_i + 1]_vars
    /\ []((PassDone /\ \A g \in Gaps(prev_data) : g[2] - g[1] = 1)
             => (mask_data = prev_data /\ written = {}))

C7_Witness ==
    /\ PassDone
    /\ Cardinality(Anchors(prev_data)) >= 2
    /\ \A g \in Gaps(prev_data) : g[2] - g[1] = 1
    /\ mask_data = prev_data

(* C8: with both anchors present, interior index i of a gap with           *)
(* num_slices interior slices uses alpha = (i+1)/(num_slices+1): strictly  *)
(* increasing, strictly between 0 and 1, and 1/4, 2/4, 3/4 for three       *)
(* interior slices                                                         *)
C8_Alpha ==
    LET n == Len(alphas)
    IN  \A k \in 1..n :
            /\ alphas[k][1] * (n + 1) = k * alphas[k][2]
            /\ 0 < alphas[k][1] /\ alphas[k][1] < alphas[k][2]
            /\ k > 1 => alphas[k - 1][1] * alphas[k][2] < alphas[k][1] * alphas[k - 1][2]
            /\ n = 3 => 4 * alphas[k][1] = k * alphas[k][2]

C8_Witness == pc = "interp" /\ Len(alphas) = 3 /\ written # {}

(* C9: every slice a pass generated is an anchor of the next pass, so a    *)
(* second pass can fill what the first left empty                          *)
C9_GeneratedSlicesAreAnchors ==
    PassDone =>
        LET found == segmented_slices(mask_data)
        IN  \A t \in written : \E i \in 1..Len(found) : found[i] = t[2]

C9_Witness ==
    /\ PassDone /\ prev_op = "interp"
    /\ mask_data # prev_data
    /\ \E t \in written : \E g \in Gaps(prev_data) : t[2] \in Interior(g)

(* C10: the visible label volume changes only in the step that ends a      *)
(* finished interpolation or cleanup, and then to the whole result; while  *)
(* a handler runs and after one failed it is the volume from before        *)
C10_AllOrNothing ==
    /\ [][mask_data' # mask_data =>
            \/ /\ pc = "interp" /\ gap_i = Len(segmented_slices(mask_data))
               /\ mask_data' = interpolated_mask
            \/ /\ pc = "cleanup" /\ slice_i = Depth
               /\ mask_data' = cleaned_mask]_vars
    /\ []((pc # "idle" \/ last_op = "error") => mask_data = prev_data)

C10_Witness ==
    /\ last_op = "error" /\ dialog = "IndexError"
    /\ written # {}
    /\ mask_data = prev_data

(* ----------------------------- cleaner -------------------------------- *)
CleanDone == pc = "idle" /\ last_op = "cleanup"
ClassesOf(vol) == UNION {ClassesIn(vol[z]) : z \in DOMAIN vol}
(* the connected components of each class of a plane, as <<class, pixels>> *)
Blobs(plane) ==
    UNION {{<<c, comp>> : comp \in Components({p \in Pix : plane[p] = c})} :
              c \in ClassesIn(plane)}
(* every pixel next to the blob is background *)
Isolated(plane, comp) ==
    \A p \in comp : \A q \in Pix : (Adjacent(p, q) /\ q \notin comp) => plane[q] = 0

(* C11: cleanup never turns a voxel of one positive class into another     *)
(* positive class                                                          *)
C11_NoRelabel ==
    CleanDone => \A z \in Slices : \A p \in Pix :
        prev_data[z][p] > 0 => mask_data[z][p] \in {0, prev_data[z][p]}

(* C12: the class ids of the cleaner's output are class ids of its input,  *)
(* while it runs and when it has finished                                  *)
C12_ClassSubset ==
    /\ pc = "cleanup" => ClassesOf(cleaned_mask) \subseteq ClassesOf(mask_data)
    /\ CleanDone => ClassesOf(mask_data) \subseteq ClassesOf(prev_data)

C12_Witness ==
    /\ CleanDone
    /\ ClassesOf(prev_data) = {1, 2}
    /\ ClassesOf(mask_data) = {1, 2}
    /\ mask_data # prev_data

(* C13: a second cleanup pass returns the volume the first one produced    *)
C13_Idempotent ==
    (CleanDone /\ prev_op = "cleanup") => mask_data = prev_data

(* C14 as stated: every voxel of an isolated 30-pixel blob keeps its class *)
C14_BlobSurvives ==
    CleanDone => \A z \in Slices : \A b \in Blobs(prev_data[z]) :
        (Cardinality(b[2]) = 30 /\ Isolated(prev_data[z], b[2]))
            => \A p \in b[2] : mask_data[z][p] = b[1]

(* C14: a 30-pixel connected blob that is the only content of its slice    *)
(* passes the size filter, and the slice keeps its class exactly on the    *)
(* hole-filled blob opened by disk(1) and closed by disk(2)                *)
C14_BlobOpenedAndClosed ==
    CleanDone => \A z \in Slices : \A b \in Blobs(prev_data[z]) :
        (Cardinality(b[2]) = 30 /\ Foreground(prev_data[z]) = b[2])
            => LET kept == binary_closing(
                               binary_opening(remove_small_holes(b[2], CleanupHoleArea),
                                              disk(1)),
                               disk(2))
               IN  mask_data[z] = [p \in Pix |-> IF p \in kept THEN b[1] ELSE 0]

C14_Witness ==
    /\ CleanDone
    /\ \E z \in Slices : \E b \in Blobs(prev_data[z]) :
          /\ Cardinality(b[2]) = 30 /\ Foreground(prev_data[z]) = b[2]
          /\ \E p \in b[2] : mask_data[z][p] = b[1]
          /\ \E p \in b[2] : mask_data[z][p] = 0

C16_Dispatch ==
    [][(pc = "interp" /\ gap_i <= Len(segs) - 1 /\ end_slice - start_slice > 1) =>
          LET in_start == \E p \in Pix : mask_data[start_slice][p] = label_value
              in_end == \E p \in Pix : mask_data[end_slice][p] = label_value
              start_m == {p \in Pix : mask_data[start_slice][p] = label_value}
              end_m == {p \in Pix : mask_data[end_slice][p] = label_value}
              pets == [k \in 1..(end_slice - start_slice) |-> pt_data[start_slice + k - 1]]
          IN  /\ (in_start /\ in_end) =>
                    \/ dialog' = "IndexError" /\ pc' = "idle"
                    \/ /\ pc' = "interp"
                       /\ \E rnd \in SUBSET AllRoundingTies(start_m, end_m,
                                                end_slice - start_slice - 1) :
                            interpolated_mask' =
                                CompositeAll(interpolated_mask, start_slice,
                                    advanced_interpolate_gap_multiclass(start_m, end_m,
                                        pets, end_slice - start_slice - 1, label_value, rnd),
                                    label_value, 0)
              /\ (in_start # in_end) =>
                    /\ pc' = "interp"
                    /\ interpolated_mask' =
                           CompositeAll(interpolated_mask, start_slice,
                               fade_slices(start_m, end_m, start_slice, end_slice),
                               label_value, 0)
              /\ (~in_start /\ ~in_end) =>
                    /\ pc' = "interp"
                    /\ interpolated_mask' = interpolated_mask]_vars

(* a pass that has written a class present in both anchors of one gap and  *)
(* a class present in one anchor only of a gap, and has passed a gap with  *)
(* a class of the volume in neither anchor                                 *)
C16_Witness ==
    /\ pc = "interp"
    /\ \E g \in Gaps(prev_data) : \E l \in 1..MaxLabel : \E z \in Interior(g) :
          /\ l \in ClassesIn(prev_data[g[1]]) /\ l \in ClassesIn(prev_data[g[2]])
          /\ \E p \in Pix : <<l, z, p>> \in written
    /\ \E g \in Gaps(prev_data) : \E l \in 1..MaxLabel : \E z \in Interior(g) :
          /\ (l \in ClassesIn(prev_data[g[1]])) # (l \in ClassesIn(prev_data[g[2]]))
          /\ \E p \in Pix : <<l, z, p>> \in written
    /\ \E g \in Gaps(prev_data) : \E l \in ClassesOf(prev_data) :
          /\ g[2] - g[1] > 1 /\ g[2] <= start_slice
          /\ l \notin ClassesIn(prev_data[g[1]]) /\ l \notin ClassesIn(prev_data[g[2]])


(* C17: with the class in both anchors of a gap, the interpolator returns  *)
(* end - start - 1 masks, and the step paints into slice start + 1 + j,    *)
(* for each j below that number, the mask computed with alpha              *)
(* (j+1)/(end-start) from the PET slice of volume index start + 1 + j,     *)
(* and changes no other slice                                              *)
C17_IndexAlignment ==
    [][(/\ pc = "interp" /\ gap_i <= Len(segs) - 1 /\ end_slice - start_slice > 1
        /\ start_label_mask # {} /\ end_label_mask # {}
        /\ pc' = "interp") =>
          LET n == end_slice - start_slice - 1
              start_dist == SignedSq(start_label_mask)
              end_dist == SignedSq(end_label_mask)
              start_smooth == gaussian(start_label_mask, Kernel2)
              end_smooth == gaussian(end_label_mask, Kernel2)
              Expected(j, rnd) ==
                  smooth_final(
                      combined(distance_mask(start_dist, end_dist, j, n, rnd),
                               morph_mask(start_smooth, end_smooth, j, n),
                               pt_mask(pt_data[start_slice + 1 + j], label_value),
                               label_value))
          IN  \E rnd \in SUBSET AllRoundingTies(start_label_mask, end_label_mask, n) :
                /\ Len(advanced_interpolate_gap_multiclass(start_label_mask,
                           end_label_mask,
                           [k \in 1..(n + 1) |-> pt_data[start_slice + k - 1]],
                           n, label_value, rnd)) = n
                /\ \A j \in 0..(n - 1) :
                      interpolated_mask'[start_slice + 1 + j] =
                          Paint(interpolated_mask[start_slice + 1 + j],
                                Expected(j, rnd), label_value)
                /\ \A z \in Slices \ ((start_slice + 1)..(end_slice - 1)) :
                      interpolated_mask'[z] = interpolated_mask[z]]_vars

(* a gap of two or more interior slices, the class in both anchors, with a *)
(* pixel written in an interior slice that the PET selects in that slice   *)
(* and not in the slice before it                                          *)
C17_Witness ==
    /\ pc = "interp"
    /\ \E g \in Gaps(prev_data) : \E l \in 1..MaxLabel :
          /\ g[2] - g[1] > 2
          /\ l \in ClassesIn(prev_data[g[1]]) /\ l \in ClassesIn(prev_data[g[2]])
          /\ \E z \in Interior(g) : \E p \in Pix :
                /\ <<l, z, p>> \in written
                /\ z - 1 \in DOMAIN pt_data /\ z \in DOMAIN pt_data
                /\ p \in pt_mask(pt_data[z], l) \ pt_mask(pt_data[z - 1], l)
                /\ prev_data[g[1]][p] # l /\ prev_data[g[2]][p] # l


(* C18: with the class in both anchors, a pixel of an interior slice is    *)
(* selected before smoothing iff 0.4*d + 0.2*m + 0.4*p > 0.4 for class 1   *)
(* and iff 0.5*d + 0.4*m + 0.1*p > 0.3 for any other class, d, m and p     *)
(* being the pixel's 0/1 values in the distance, morphological and PET     *)
(* masks; the slice receives the smoothed selection                        *)
C18_FusionRule ==
    [][(/\ pc = "interp" /\ gap_i <= Len(segs) - 1 /\ end_slice - start_slice > 1
        /\ start_label_mask # {} /\ end_label_mask # {}
        /\ pc' = "interp") =>
          LET n == end_slice - start_slice - 1
              start_dist == SignedSq(start_label_mask)
              end_dist == SignedSq(end_label_mask)
              start_smooth == gaussian(start_label_mask, Kernel2)
              end_smooth == gaussian(end_label_mask, Kernel2)
              In(q, mask) == IF q \in mask THEN 100 ELSE 0
              Selected(j, rnd) ==
                  LET dm == distance_mask(start_dist, end_dist, j, n, rnd)
                      mm == morph_mask(start_smooth, end_smooth, j, n)
                      pm == pt_mask(pt_data[start_slice + 1 + j], label_value)
                  IN  {q \in Pix :
                         IF label_value = 1
                         THEN 40 * In(q, dm) + 20 * In(q, mm) + 40 * In(q, pm) > 40 * 100
                         ELSE 50 * In(q, dm) + 40 * In(q, mm) + 10 * In(q, pm) > 30 * 100}
          IN  \E rnd \in SUBSET AllRoundingTies(start_label_mask, end_label_mask, n) :
                \A j \in 0..(n - 1) :
                    {q \in Pix : interpolated_mask'[start_slice + 1 + j][q] = label_value}
                        = {q \in Pix : interpolated_mask[start_slice + 1 + j][q] = label_value}
                              \cup smooth_final(Selected(j, rnd))]_vars

(* a class other than 1 in both anchors of a gap, the PET hot somewhere in *)
(* the interior slice, and a pixel written there that belongs to the class *)
(* in neither anchor                                                       *)
C18_Witness ==
    /\ pc = "interp"
    /\ \E g \in Gaps(prev_data) : \E l \in 2..MaxLabel :
          /\ l \in ClassesIn(prev_data[g[1]]) /\ l \in ClassesIn(prev_data[g[2]])
          /\ \E z \in Interior(g) : \E p \in Pix :
                /\ <<l, z, p>> \in written
                /\ z \in DOMAIN pt_data /\ pt_mask(pt_data[z], l) # {}
                /\ prev_data[g[1]][p] # l /\ prev_data[g[2]][p] # l


(* C19: with the class in both anchors and no voxel above zero in the PET  *)
(* slice of an interior slice, the step does not fail and the slice        *)
(* receives the smoothed selection made from the distance and              *)
(* morphological masks alone: both of them for class 1, either of them for *)
(* any other class                                                         *)
C19_ColdPet ==
    [][(/\ pc = "interp" /\ gap_i <= Len(segs) - 1 /\ end_slice - start_slice > 1
        /\ start_label_mask # {} /\ end_label_mask # {}
        /\ \A z \in (start_slice + 1)..(end_slice - 1) :
              z \in DOMAIN pt_data /\ \A q \in Pix : pt_data[z][q] <= 0) =>
          LET n == end_slice - start_slice - 1
              start_dist == SignedSq(start_label_mask)
              end_dist == SignedSq(end_label_mask)
              start_smooth == gaussian(start_label_mask, Kernel2)
              end_smooth == gaussian(end_label_mask, Kernel2)
              Selected(j, rnd) ==
                  LET dm == distance_mask(start_dist, end_dist, j, n, rnd)
                      mm == morph_mask(start_smooth, end_smooth, j, n)
                  IN  IF label_value = 1 THEN dm \cap mm ELSE dm \cup mm
          IN  /\ pc' = "interp" /\ dialog' = dialog
              /\ \E rnd \in SUBSET AllRoundingTies(start_label_mask, end_label_mask, n) :
                   \A j \in 0..(n - 1) :
                      {q \in Pix : interpolated_mask'[start_slice + 1 + j][q] = label_value}
                        = {q \in Pix : interpolated_mask[start_slice + 1 + j][q] = label_value}
                              \cup smooth_final(Selected(j, rnd))]_vars

(* a class in both anchors of a gap whose interior PET slice has no voxel  *)
(* above zero, written to part of that slice and not to all of it          *)
C19_Witness ==
    /\ pc = "interp"
    /\ \E g \in Gaps(prev_data) : \E l \in 1..MaxLabel :
          /\ l \in ClassesIn(prev_data[g[1]]) /\ l \in ClassesIn(prev_data[g[2]])
          /\ \E z \in Interior(g) :
                /\ z \in DOMAIN pt_data /\ \A q \in Pix : pt_data[z][q] <= 0
                /\ \E p \in Pix : <<l, z, p>> \in written
                /\ \E p \in Pix : <<l, z, p>> \notin written


(* C20: with the class in exactly one anchor of a gap, interior slice      *)
(* start + 1 + j receives the class where the sigma-1 blur of that         *)
(* anchor's class mask exceeds 0.3 + 0.4*alpha when the anchor is the      *)
(* start, and 0.7 - 0.4*alpha when it is the end, with                     *)
(* alpha = (j+1)/(end-start)                                               *)
C20_FadeCutoff ==
    [][(/\ pc = "interp" /\ gap_i <= Len(segs) - 1 /\ end_slice - start_slice > 1
        /\ (start_label_mask # {}) # (end_label_mask # {})) =>
          LET len == end_slice - start_slice
              from_start == start_label_mask # {}
              field == gaussian(IF from_start
                                THEN {p \in Pix : mask_data[start_slice][p] = label_value}
                                ELSE {p \in Pix : mask_data[end_slice][p] = label_value},
                                Kernel1)
              Cut(j) == IF from_start THEN 3 * len + 4 * (j + 1)
                                      ELSE 7 * len - 4 * (j + 1)
          IN  \A j \in 0..(len - 2) :
                {q \in Pix : interpolated_mask'[start_slice + 1 + j][q] = label_value}
                  = {q \in Pix : interpolated_mask[start_slice + 1 + j][q] = label_value}
                      \cup {q \in Pix : field[q] * len > (Unit \div 10) * Cut(j)}]_vars

(* a gap in which one class of the start anchor only and one class of the  *)
(* end anchor only have both been written to an interior slice, and each   *)
(* has left a pixel of its anchor unwritten in an interior slice           *)
C20_Witness ==
    /\ pc = "interp"
    /\ \E g \in Gaps(prev_data) : \E a, b \in 1..MaxLabel :
          /\ a \in ClassesIn(prev_data[g[1]]) /\ a \notin ClassesIn(prev_data[g[2]])
          /\ b \in ClassesIn(prev_data[g[2]]) /\ b \notin ClassesIn(prev_data[g[1]])
          /\ \E z, y \in Interior(g) : \E p, q \in Pix :
                /\ <<a, z, p>> \in written
                /\ prev_data[g[1]][q] = a /\ <<a, y, q>> \notin written
          /\ \E z, y \in Interior(g) : \E p, q \in Pix :
                /\ <<b, z, p>> \in written
                /\ prev_data[g[2]][q] = b /\ <<b, y, q>> \notin written


UnitMasks(vol, pet, g, l, rnd) ==
    LET start_m == LabelMask(vol[g[1]], l)
        end_m == LabelMask(vol[g[2]], l)
        n == g[2] - g[1] - 1
    IN  IF start_m # {} /\ end_m # {}
        THEN advanced_interpolate_gap_multiclass(start_m, end_m,
                 [k \in 1..(n + 1) |-> pet[g[1] + k - 1]], n, l, rnd)
        ELSE IF start_m # {} \/ end_m # {}
        THEN fade_slices(start_m, end_m, g[1], g[2])
        ELSE [j \in 1..n |-> {}]

(* C22: what a finished pass wrote for a gap and a class is what that unit *)
(* computes from the volume and the PET as they were before the pass, and  *)
(* the volume after the pass is that volume with, in every voxel some unit *)
(* wrote, the highest class written there                                  *)
C22_UnitsReadInputOnly ==
    PassDone =>
        /\ \A g \in Gaps(prev_data) : \A l \in ClassesOf(prev_data) :
              g[2] - g[1] > 1 =>
                 \E rnd \in (IF l \in ClassesIn(prev_data[g[1]]) \cap ClassesIn(prev_data[g[2]])
                             THEN SUBSET AllRoundingTies(LabelMask(prev_data[g[1]], l),
                                                         LabelMask(prev_data[g[2]], l),
                                                         g[2] - g[1] - 1)
                             ELSE {{}}) :
                    LET unit == UnitMasks(prev_data, pt_data, g, l, rnd)
                    IN  \A z \in Interior(g) :
                           {p \in Pix : <<l, z, p>> \in written} = unit[z - g[1]]
        /\ \A t \in written : \E g \in Gaps(prev_data) : t[2] \in Interior(g)
        /\ \A z \in Slices : \A p \in Pix :
              LET wrote == {l \in 1..MaxLabel : <<l, z, p>> \in written}
              IN  /\ wrote = {} => mask_data[z][p] = prev_data[z][p]
                  /\ wrote # {} => /\ mask_data[z][p] \in wrote
                                   /\ \A l \in wrote : l <= mask_data[z][p]

(* a finished pass over two gaps in which two classes were written to the  *)
(* same voxel                                                              *)
C22_Witness ==
    /\ PassDone
    /\ \E g, h \in Gaps(prev_data) :
          /\ g # h
          /\ \E z \in Interior(g) : \E p \in Pix :
                <<1, z, p>> \in written /\ <<2, z, p>> \in written
          /\ \E z \in Interior(h) : \E p \in Pix : \E l \in 1..MaxLabel :
                <<l, z, p>> \in written


(* C23: a mask the full interpolator returned, that is what a pass wrote   *)
(* to an interior slice for a class present in both anchors of the gap,    *)
(* has no connected component of fewer than 25 pixels                      *)
C23_NoSmallComponent ==
    (pc = "interp" \/ PassDone) =>
        \A g \in Gaps(prev_data) : \A l \in 1..MaxLabel :
            (l \in ClassesIn(prev_data[g[1]]) /\ l \in ClassesIn(prev_data[g[2]]))
                => \A z \in Interior(g) :
                      \A comp \in Components({p \in Pix : <<l, z, p>> \in written}) :
                          Cardinality(comp) >= 25

(* a returned mask that is neither empty nor the whole plane *)
C23_Witness ==
    /\ pc = "interp"
    /\ \E g \in Gaps(prev_data) : \E l \in 1..MaxLabel :
          /\ l \in ClassesIn(prev_data[g[1]]) /\ l \in ClassesIn(prev_data[g[2]])
          /\ \E z \in Interior(g) :
                LET mask == {p \in Pix : <<l, z, p>> \in written}
                IN  /\ mask # {} /\ mask # Pix
                    /\ Components(mask) # {}


(* C24: a finished pass has written only to slices strictly between two    *)
(* consecutive anchors, which were all background; every anchor slice is   *)
(* as it was, every slice before the first or after the last anchor is all *)
(* background, and every voxel that was labelled keeps its class           *)
C24_OnlyInteriorWritten ==
    PassDone =>
        /\ \A t \in written :
              \E g \in Gaps(prev_data) :
                  t[2] \in Interior(g) /\ prev_data[t[2]] = EmptyPlane
        /\ \A z \in Anchors(prev_data) : mask_data[z] = prev_data[z]
        /\ \A z \in Slices :
              ((\A a \in Anchors(prev_data) : z < a) \/ (\A a \in Anchors(prev_data) : z > a))
                  => mask_data[z] = EmptyPlane
        /\ \A z \in Slices : \A p \in Pix :
              /\ prev_data[z][p] # 0 => mask_data[z][p] = prev_data[z][p]
              /\ mask_data[z][p] # prev_data[z][p] =>
                    \E g \in Gaps(prev_data) : z \in Interior(g)

(* a finished pass that wrote to a slice, over a volume with a slice       *)
(* before its first anchor and a slice after its last                      *)
C24_Witness ==
    /\ PassDone
    /\ written # {}
    /\ mask_data # prev_data
    /\ \E z \in Slices : \A a \in Anchors(prev_data) : z < a
    /\ \E z \in Slices : \A a \in Anchors(prev_data) : z > a


(* C25: for a class other than 1 in both anchors, the selection made       *)
(* before smoothing is the union of the distance mask and the              *)
(* morphological mask whatever the PET slice is: the one in the volume, an *)
(* all-zero one, or one with other hot columns                             *)
C25_PetIrrelevantForOthers ==
    [][(/\ pc = "interp" /\ gap_i <= Len(segs) - 1 /\ end_slice - start_slice > 1
        /\ label_value # 1
        /\ start_label_mask # {} /\ end_label_mask # {}
        /\ pc' = "interp") =>
          LET n == end_slice - start_slice - 1
              start_dist == SignedSq(start_label_mask)
              end_dist == SignedSq(end_label_mask)
              start_smooth == gaussian(start_label_mask, Kernel2)
              end_smooth == gaussian(end_label_mask, Kernel2)
          IN  \E rnd \in SUBSET AllRoundingTies(start_label_mask, end_label_mask, n) :
                \A j \in 0..(n - 1) :
                   LET dm == distance_mask(start_dist, end_dist, j, n, rnd)
                       mm == morph_mask(start_smooth, end_smooth, j, n)
                   IN  /\ \A pet \in {pt_data[start_slice + 1 + j], ZeroPet, HotPet,
                                      SlicePet(0), SlicePet(1)} :
                             combined(dm, mm, pt_mask(pet, label_value), label_value)
                                 = dm \cup mm
                       /\ {q \in Pix : interpolated_mask'[start_slice + 1 + j][q] = label_value}
                            = {q \in Pix : interpolated_mask[start_slice + 1 + j][q] = label_value}
                                  \cup smooth_final(dm \cup mm)]_vars

(* a class other than 1 in both anchors of a gap, written in an interior   *)
(* slice to pixels the PET of that slice selects and to pixels it does not *)
(* select                                                                  *)
C25_Witness ==
    /\ pc = "interp"
    /\ \E g \in Gaps(prev_data) : \E l \in 2..MaxLabel :
          /\ l \in ClassesIn(prev_data[g[1]]) /\ l \in ClassesIn(prev_data[g[2]])
          /\ \E z \in Interior(g) :
                /\ z \in DOMAIN pt_data
                /\ \E p \in pt_mask(pt_data[z], l) : <<l, z, p>> \in written
                /\ \E p \in Pix \ pt_mask(pt_data[z], l) : <<l, z, p>> \in written


(* C26: for class 1 in both anchors, a pixel is selected before smoothing  *)
(* iff at least two of the distance mask, the morphological mask and the   *)
(* PET mask hold it; a pixel held by one of them only is not selected      *)
C26_TumorMajority ==
    [][(/\ pc = "interp" /\ gap_i <= Len(segs) - 1 /\ end_slice - start_slice > 1
        /\ label_value = 1
        /\ start_label_mask # {} /\ end_label_mask # {}
        /\ pc' = "interp") =>
          LET n == end_slice - start_slice - 1
              start_dist == SignedSq(start_label_mask)
              end_dist == SignedSq(end_label_mask)
              start_smooth == gaussian(start_label_mask, Kernel2)
              end_smooth == gaussian(end_label_mask, Kernel2)
          IN  \E rnd \in SUBSET AllRoundingTies(start_label_mask, end_label_mask, n) :
                \A j \in 0..(n - 1) :
                   LET dm == distance_mask(start_dist, end_dist, j, n, rnd)
                       mm == morph_mask(start_smooth, end_smooth, j, n)
                       pm == pt_mask(pt_data[start_slice + 1 + j], 1)
                       majority == (dm \cap mm) \cup (dm \cap pm) \cup (mm \cap pm)
                   IN  /\ combined(dm, mm, pm, 1) = majority
                       /\ \A q \in Pix :
                             q \in combined(dm, mm, pm, 1)
                                 <=> Bit(q \in dm) + Bit(q \in mm) + Bit(q \in pm) >= 2
                       /\ {q \in Pix : interpolated_mask'[start_slice + 1 + j][q] = 1}
                            = {q \in Pix : interpolated_mask[start_slice + 1 + j][q] = 1}
                                  \cup smooth_final(majority)]_vars

(* class 1 in both anchors of a gap, with an interior slice where a pixel  *)
(* outside both anchors' masks that the PET selects is written, and an     *)
(* interior slice where a pixel that the PET selects is not written        *)
C26_Witness ==
    /\ pc = "interp"
    /\ \E g \in Gaps(prev_data) :
          /\ 1 \in ClassesIn(prev_data[g[1]]) /\ 1 \in ClassesIn(prev_data[g[2]])
          /\ \E z \in Interior(g) :
                /\ z \in DOMAIN pt_data
                /\ \E p \in pt_mask(pt_data[z], 1) :
                      /\ <<1, z, p>> \in written
                      /\ prev_data[g[1]][p] # 1 /\ prev_data[g[2]][p] # 1
          /\ \E z \in Interior(g) :
                /\ z \in DOMAIN pt_data
                /\ \E p \in Pix : <<1, z, p>> \in written
                /\ \E p \in pt_mask(pt_data[z], 1) : <<1, z, p>> \notin written


(* what the pass wrote for class l in slice z *)
WrittenMask(l, z) == {p \in Pix : <<l, z, p>> \in written}

(* C27: for a class present in the start anchor of a gap only, the fade    *)
(* mask of each interior slice is a subset of the fade mask of the slice   *)
(* before it; for a class present in the end anchor only, a superset       *)
C27_FadeNested ==
    (pc = "interp" \/ PassDone) =>
        \A g \in Gaps(prev_data) : \A l \in 1..MaxLabel :
            \A z \in Interior(g) :
                z + 1 \in Interior(g)
                => LET in_start == l \in ClassesIn(prev_data[g[1]])
                       in_end == l \in ClassesIn(prev_data[g[2]])
                   IN  /\ (in_start /\ ~in_end) => WrittenMask(l, z + 1) \subseteq WrittenMask(l, z)
                       /\ (in_end /\ ~in_start) => WrittenMask(l, z) \subseteq WrittenMask(l, z + 1)

(* a finished pass over a gap with a class of the start anchor only whose  *)
(* fade mask strictly shrinks from one interior slice to the next, and a   *)
(* class of the end anchor only whose fade mask strictly grows             *)
C27_Witness ==
    /\ PassDone
    /\ \E g \in Gaps(prev_data) : \E a, b \in 1..MaxLabel :
          /\ a \in ClassesIn(prev_data[g[1]]) /\ a \notin ClassesIn(prev_data[g[2]])
          /\ b \in ClassesIn(prev_data[g[2]]) /\ b \notin ClassesIn(prev_data[g[1]])
          /\ \E z \in Interior(g) :
                /\ z + 1 \in Interior(g)
                /\ WrittenMask(a, z + 1) \subseteq WrittenMask(a, z)
                /\ WrittenMask(a, z + 1) # WrittenMask(a, z)
          /\ \E z \in Interior(g) :
                /\ z + 1 \in Interior(g)
                /\ WrittenMask(b, z) \subseteq WrittenMask(b, z + 1)
                /\ WrittenMask(b, z) # WrittenMask(b, z + 1)


(* every slice between the first and the last anchor is an anchor *)
Filled(vol) == \A g \in Gaps(vol) : g[2] - g[1] = 1

(* C28: a pass over a volume in which every slice between the first and    *)
(* the last anchor holds a labelled voxel, as a pass that filled every gap  *)
(* leaves it, writes nothing and leaves the volume as it is                 *)
C28_SecondPassNoChange ==
    (PassDone /\ Filled(prev_data)) => (mask_data = prev_data /\ written = {})

(* a second pass in a row, over a volume with two or more anchors more     *)
(* than any drawn volume has, all adjacent                                 *)
C28_Witness ==
    /\ PassDone /\ prev_op = "interp"
    /\ Filled(prev_data)
    /\ Cardinality(Anchors(prev_data)) >= 5
    /\ dialog = "Smart Interpolation Complete"


(* C29: a Next, a Previous or a dropdown selection moves to another        *)
(* patient only if the mask equals the last loaded or saved one, or Save & *)
(* Continue was clicked and the mask is in the finals folder, or Discard & *)
(* Continue was clicked and confirmed with Yes; after Cancel or No the     *)
(* patient index, the dropdown and the mask are as before                  *)
C29_SwitchNeedsConsent ==
    [][(last_op' \in {"next", "prev", "select"}) =>
          /\ current_patient_idx' # current_patient_idx =>
                \/ mask_data = original_mask
                \/ dialog' = "Save & Continue" /\ finals'[current_patient_idx] = mask_data
                \/ dialog' = "Discard & Continue, Yes"
          /\ dialog' \in {"Cancel", "Discard & Continue, No"} =>
                /\ current_patient_idx' = current_patient_idx
                /\ patient_combo' = patient_combo
                /\ mask_data' = mask_data
                /\ finals' = finals]_vars

(* the dropdown moved to another patient after Save & Continue, and the    *)
(* mask of the patient left behind is in the finals folder and differs     *)
(* from that patient's label file                                          *)
C29_Witness ==
    /\ last_op = "select" /\ dialog = "Save & Continue"
    /\ \E i \in Patients :
          /\ i # current_patient_idx
          /\ finals[i] # NoFile /\ finals[i] # LoadedMask([k \in Patients |-> NoFile], i)
    /\ mask_data = original_mask
    /\ patient_combo = current_patient_idx


(* C30: select, launch and mark-complete in the notebook app leave a       *)
(* non-empty annotation file of the finals folder non-empty                *)
C30_SavedAnnotationKept ==
    [][(last_op' \in {"login", "app_select", "launch", "mark_complete"}) =>
          \A i \in Patients :
              (finals[i] # NoFile /\ \E z \in Slices : \E p \in Pix : finals[i][z][p] # 0)
                  => (finals'[i] # NoFile
                      /\ \E z \in Slices : \E p \in Pix : finals'[i][z][p] # 0)]_vars

====
